---- MODULE Spec2Model ----
(***************************************************************************)
(* Order-preserving row codec of arrow-rs: the fixed-width codec           *)
(* (arrow/src/row/fixed.rs), the dictionary codec                          *)
(* (arrow/src/row/dictionary.rs), decimal equality                         *)
(* (arrow-data/src/equal/decimal.rs) and the temporal split                *)
(* (arrow-array/src/temporal_conversions.rs).                              *)
(*                                                                         *)
(* A byte is an integer in 0..255 and a byte string is a sequence of       *)
(* bytes.  Option<T> is a sequence of length at most one: None is << >>    *)
(* and Some(v) is <<v>>.                                                   *)
(***************************************************************************)
EXTENDS Integers, Sequences, FiniteSets, TLC

VARIABLES
    scalar,     \* the scalar codec exercised on a pair of values of one type
    fields,     \* the converter's fields: data type and sort options per column
    columns,    \* the input column arrays, one per field
    buffer,     \* Rows.buffer
    offsets,    \* Rows.offsets
    written,    \* how many columns the column writers have written
    interners,  \* per field, the values its OrderPreservingInterner holds
    rows,       \* the row slices handed to the decoders (&mut [&[u8]])
    arrays,     \* the arrays the decoders have returned, in column order
    pc,         \* "idle" | "encode" | "decode" | "done" | "failed"
    mapping,    \* what compute_dictionary_mapping returned for the dictionary values
    call        \* a call of a temporal conversion or of decimal_equal and its result

vars == <<scalar, fields, columns, buffer, offsets, written, interners, rows, arrays, pc,
          mapping, call>>

None == << >>
Some(v) == <<v>>
IsSome(o) == Len(o) = 1
Unwrap(o) == o[1]

(***************************************************************************)
(* Bytes and machine integers                                              *)
(***************************************************************************)
Byte == 0..255

Pow2(k) == 2 ^ k

\* !b on a u8
NotByte(b) == 255 - b

RECURSIVE NotBytes(_)
NotBytes(s) == IF Len(s) = 0 THEN << >> ELSE <<NotByte(Head(s))>> \o NotBytes(Tail(s))

RECURSIVE Reverse(_)
Reverse(s) == IF Len(s) = 0 THEN << >> ELSE Append(Reverse(Tail(s)), Head(s))

RECURSIVE BitXor(_, _, _)
\* a ^ b on w-bit unsigned integers
BitXor(x, y, w) ==
    IF w = 0 THEN 0
    ELSE (((x % 2) + (y % 2)) % 2) + 2 * BitXor(x \div 2, y \div 2, w - 1)

\* `u as iW` for a W-bit unsigned u
AsSigned(u, w) == IF u >= Pow2(w - 1) THEN u - Pow2(w) ELSE u

\* `s as uW` for a W-bit signed s
AsUnsigned(s, w) == s % Pow2(w)

\* s >> k on a signed integer (arithmetic shift)
Sar(s, k) == s \div Pow2(k)

\* u >> k on an unsigned integer (logical shift)
Shr(u, k) == u \div Pow2(k)

\* a ^ b on w-bit signed integers
XorSigned(x, y, w) == AsSigned(BitXor(AsUnsigned(x, w), AsUnsigned(y, w), w), w)

RECURSIVE ToLeBytes(_, _)
\* the n two's-complement bytes of v, least significant first
ToLeBytes(v, n) ==
    IF n = 0 THEN << >> ELSE <<v % 256>> \o ToLeBytes(v \div 256, n - 1)

\* v.to_be_bytes() for an n-byte integer (signed or unsigned)
to_be_bytes(v, n) == Reverse(ToLeBytes(v, n))

RECURSIVE Horner(_, _, _)
Horner(acc, s, i) ==
    IF i > Len(s) THEN acc ELSE Horner(acc * 256 + s[i], s, i + 1)

\* uN::from_be_bytes
from_be_bytes_unsigned(s) == Horner(0, s, 1)

\* iN::from_be_bytes: the top byte carries the sign
from_be_bytes_signed(s) == Horner(AsSigned(s[1], 8), s, 2)

RECURSIVE LexCmp(_, _, _)
\* unsigned lexicographic comparison of byte strings from index i: -1, 0 or 1
LexCmp(x, y, i) ==
    IF i > Len(x) /\ i > Len(y) THEN 0
    ELSE IF i > Len(x) THEN -1
    ELSE IF i > Len(y) THEN 1
    ELSE IF x[i] < y[i] THEN -1
    ELSE IF x[i] > y[i] THEN 1
    ELSE LexCmp(x, y, i + 1)

LexLess(x, y) == LexCmp(x, y, 1) = -1

(***************************************************************************)
(* FromSlice and the FixedLengthEncoding implementations                   *)
(***************************************************************************)
from_slice_keep(slice, invert) == slice

from_slice(slice, invert) == IF invert THEN NotBytes(slice) ELSE slice

\* bytes of the encoded payload, ENCODED_LEN is one more
EncodedSize(dt) ==
    CASE dt = "Boolean" -> 1
      [] dt = "Int8" -> 1
      [] dt = "Int16" -> 2
      [] dt = "Int32" -> 4
      [] dt = "UInt8" -> 1
      [] dt = "UInt16" -> 2
      [] dt = "Float16" -> 2
      [] dt = "Decimal128" -> 16
      [] dt = "Decimal256" -> 32

ENCODED_LEN(dt) == 1 + EncodedSize(dt)

encode_bool(v) == <<IF v THEN 1 ELSE 0>>

decode_bool_value(encoded) == encoded[1] # 0

encode_signed_plain(n, v) == to_be_bytes(v, n)

encode_signed(n, v) ==
    LET b == to_be_bytes(v, n)
    IN  [b EXCEPT ![1] = BitXor(b[1], 128, 8)]

decode_signed(n, encoded) ==
    from_be_bytes_signed([encoded EXCEPT ![1] = BitXor(encoded[1], 128, 8)])

encode_unsigned(n, v) == to_be_bytes(v, n)

decode_unsigned(n, encoded) == from_be_bytes_unsigned(encoded)

encode_f16_signflip(bits) ==
    LET s == AsSigned(bits, 16)
        val == XorSigned(s, AsSigned(Shr(AsUnsigned(Sar(s, 15), 16), 0), 16), 16)
    IN  encode_signed(2, val)

encode_f16(bits) ==
    LET s == AsSigned(bits, 16)
        val == XorSigned(s, AsSigned(Shr(AsUnsigned(Sar(s, 15), 16), 1), 16), 16)
    IN  encode_signed(2, val)

decode_f16(encoded) ==
    LET bits == decode_signed(2, encoded)
        val == XorSigned(bits, AsSigned(Shr(AsUnsigned(Sar(bits, 15), 16), 1), 16), 16)
    IN  AsUnsigned(val, 16)

RawDecimal_encode(val) ==
    LET r == Reverse(val)
    IN  [r EXCEPT ![1] = BitXor(r[1], 128, 8)]

RawDecimal_decode_noreverse(encoded) ==
    [encoded EXCEPT ![1] = BitXor(encoded[1], 128, 8)]

RawDecimal_decode(encoded) ==
    Reverse([encoded EXCEPT ![1] = BitXor(encoded[1], 128, 8)])

\* T::encode for the native type of data type dt
T_encode(dt, v) ==
    CASE dt = "Boolean" -> encode_bool(v)
      [] dt = "Int8" -> encode_signed(1, v)
      [] dt = "Int16" -> encode_signed(2, v)
      [] dt = "Int32" -> encode_signed(4, v)
      [] dt = "UInt8" -> encode_unsigned(1, v)
      [] dt = "UInt16" -> encode_unsigned(2, v)
      [] dt = "Float16" -> encode_f16(v)
      [] dt = "Decimal128" -> RawDecimal_encode(v)
      [] dt = "Decimal256" -> RawDecimal_encode(v)

\* T::decode for the native type of data type dt
T_decode(dt, encoded) ==
    CASE dt = "Boolean" -> decode_bool_value(encoded)
      [] dt = "Int8" -> decode_signed(1, encoded)
      [] dt = "Int16" -> decode_signed(2, encoded)
      [] dt = "Int32" -> decode_signed(4, encoded)
      [] dt = "UInt8" -> decode_unsigned(1, encoded)
      [] dt = "UInt16" -> decode_unsigned(2, encoded)
      [] dt = "Float16" -> decode_f16(encoded)
      [] dt = "Decimal128" -> RawDecimal_decode(encoded)
      [] dt = "Decimal256" -> RawDecimal_decode(encoded)

(***************************************************************************)
(* The native values the scalar codec is exercised on, and their order     *)
(***************************************************************************)
I32_MIN == (-2147483647) - 1
I32_MAX == 2147483647

\* bit patterns of an f16: sign, biased exponent, mantissa
F16Bits(sign, exp, mant) == sign * 32768 + exp * 1024 + mant
F16Sign(bits) == bits \div 32768
F16Exp(bits) == (bits \div 1024) % 32
F16Mant(bits) == bits % 1024
F16IsNaN(bits) == F16Exp(bits) = 31 /\ F16Mant(bits) # 0

\* |x| < |y| for non-NaN x, y: |x| = Sig * 2^(EffExp - 25), Sig < 2048, and a
\* normal number has Sig >= 1024, so the order is that of (EffExp, Sig)
F16EffExp(bits) == IF F16Exp(bits) = 0 THEN 1 ELSE F16Exp(bits)
F16Sig(bits) == IF F16Exp(bits) = 0 THEN F16Mant(bits) ELSE 1024 + F16Mant(bits)
F16MagLess(x, y) ==
    \/ F16EffExp(x) < F16EffExp(y)
    \/ F16EffExp(x) = F16EffExp(y) /\ F16Sig(x) < F16Sig(y)

\* x before y by value, -0.0 before +0.0 (non-NaN x, y)
F16Less(x, y) ==
    CASE F16Sign(x) = 1 /\ F16Sign(y) = 0 -> TRUE
      [] F16Sign(x) = 0 /\ F16Sign(y) = 1 -> FALSE
      [] F16Sign(x) = 0 /\ F16Sign(y) = 0 -> F16MagLess(x, y)
      [] F16Sign(x) = 1 /\ F16Sign(y) = 1 -> F16MagLess(y, x)

\* a two's-complement little-endian decimal is negative when its top bit is set
DecNegative(x) == x[Len(x)] >= 128

RECURSIVE DecCmpFrom(_, _, _)
\* compares two little-endian decimals of one sign from byte i downwards
DecCmpFrom(x, y, i) ==
    IF i = 0 THEN 0
    ELSE IF x[i] < y[i] THEN -1
    ELSE IF x[i] > y[i] THEN 1
    ELSE DecCmpFrom(x, y, i - 1)

\* x < y as two's-complement integers
DecLess(x, y) ==
    IF DecNegative(x) # DecNegative(y) THEN DecNegative(x)
    ELSE DecCmpFrom(x, y, Len(x)) = -1

DecSmall == {-257, -256, -2, -1, 0, 1, 2, 255, 256, 65536}

DecimalValues(n) ==
    {ToLeBytes(v, n) : v \in DecSmall} \cup
    { [i \in 1..n |-> IF i = n THEN 128 ELSE 0],       \* the minimum
      [i \in 1..n |-> IF i = n THEN 127 ELSE 255],     \* the maximum
      [i \in 1..n |-> IF i = n THEN 1 ELSE 0],
      [i \in 1..n |-> IF i = n THEN 255 ELSE IF i = n - 1 THEN 0 ELSE 255],
      [i \in 1..n |-> IF i = 1 THEN 128 ELSE 0] }

ScalarTypes ==
    {"Boolean", "Int8", "Int16", "Int32", "UInt8", "UInt16", "Float16",
     "Decimal128", "Decimal256"}

IntegerTypes == {"Int8", "Int16", "Int32", "UInt8", "UInt16"}
DecimalTypes == {"Decimal128", "Decimal256"}

\* the second value of a pair
Samples(dt) ==
    CASE dt = "Boolean" -> BOOLEAN
      [] dt = "Int8" -> {-128, -127, -2, -1, 0, 1, 2, 126, 127}
      [] dt = "Int16" -> {-32768, -32767, -257, -256, -1, 0, 1, 255, 256, 32766, 32767}
      [] dt = "Int32" -> {I32_MIN, I32_MIN + 1, -65537, -65536, -256, -1, 0, 1, 255,
                          65535, 65536, 16777216, I32_MAX - 1, I32_MAX}
      [] dt = "UInt8" -> {0, 1, 2, 127, 128, 254, 255}
      [] dt = "UInt16" -> {0, 1, 255, 256, 32767, 32768, 65534, 65535}
      [] dt = "Float16" -> {F16Bits(s, e, m) : s \in {0, 1}, e \in {0, 1, 15, 30, 31},
                                               m \in {0, 1, 1023}}
      [] dt = "Decimal128" -> DecimalValues(16)
      [] dt = "Decimal256" -> DecimalValues(32)

\* the first value of a pair: every value of the one-byte types
Values(dt) ==
    CASE dt = "Int8" -> -128..127
      [] dt = "UInt8" -> 0..255
      [] dt = "Float16" -> {F16Bits(s, e, m) : s \in {0, 1}, e \in 0..31,
                                               m \in {0, 1, 512, 1023}}
      [] OTHER -> Samples(dt)

\* x < y in the native order of data type dt
NativeLess(dt, x, y) ==
    CASE dt = "Boolean" -> x = FALSE /\ y = TRUE
      [] dt \in IntegerTypes -> x < y
      [] dt = "Float16" -> F16Less(x, y)
      [] dt \in DecimalTypes -> DecLess(x, y)

ScalarIdle == [step |-> "idle"]

\* no dictionary mapping computed, no conversion called
MappingIdle == [status |-> "idle"]
CallIdle == [fn |-> "idle"]

ScalarInit ==
    \E dt \in ScalarTypes : \E a \in Values(dt) : \E b \in Samples(dt) :
        scalar = [step |-> "init", dt |-> dt, a |-> a, b |-> b,
                  ea |-> << >>, eb |-> << >>, da |-> None, dinv |-> None]

PipelineIdle ==
    /\ fields = << >>
    /\ columns = << >>
    /\ buffer = << >>
    /\ offsets = <<0>>
    /\ written = 0
    /\ interners = << >>
    /\ rows = << >>
    /\ arrays = << >>
    /\ pc = "idle"

InitScalar == ScalarInit /\ PipelineIdle /\ mapping = MappingIdle /\ call = CallIdle

\* T::encode on both values of the pair
ScalarEncode ==
    /\ scalar.step = "init"
    /\ scalar' = [scalar EXCEPT !.step = "encoded",
                                !.ea = T_encode(scalar.dt, scalar.a),
                                !.eb = T_encode(scalar.dt, scalar.b)]
    /\ UNCHANGED <<mapping, call, fields, columns, buffer, offsets, written, interners, rows, arrays, pc>>

\* T::decode(T::Encoded::from_slice(..)) on the bytes as written ascending
\* (invert = false) and as written descending (every byte negated, invert = true)
ScalarDecode ==
    /\ scalar.step = "encoded"
    /\ scalar' = [scalar EXCEPT
            !.step = "decoded",
            !.da = Some(T_decode(scalar.dt, from_slice(scalar.ea, FALSE))),
            !.dinv = Some(T_decode(scalar.dt, from_slice(NotBytes(scalar.ea), TRUE)))]
    /\ UNCHANGED <<mapping, call, fields, columns, buffer, offsets, written, interners, rows, arrays, pc>>

NextScalar == ScalarEncode \/ ScalarDecode

SpecScalar == InitScalar /\ [][NextScalar]_vars

(***************************************************************************)
(* Claims on the scalar codec                                              *)
(***************************************************************************)

\* C3: the payload encoding of integers and decimals is strictly
\* order-preserving: a < b numerically iff encode(a) < encode(b) in unsigned
\* lexicographic order; the signed 8-bit values -1, 0, 1 encode to 0x7F, 0x80,
\* 0x81.
C3_PayloadOrderPreserving ==
    (scalar.step = "encoded" /\ scalar.dt \in IntegerTypes \cup DecimalTypes) =>
        /\ NativeLess(scalar.dt, scalar.a, scalar.b) <=> LexLess(scalar.ea, scalar.eb)
        /\ (scalar.dt = "Int8" /\ scalar.a = -1) => scalar.ea = <<127>>
        /\ (scalar.dt = "Int8" /\ scalar.a = 0) => scalar.ea = <<128>>
        /\ (scalar.dt = "Int8" /\ scalar.a = 1) => scalar.ea = <<129>>

C3_Witness ==
    /\ scalar.step = "encoded"
    /\ scalar.dt = "Int8"
    /\ scalar.a = -1
    /\ scalar.b = 1
    /\ scalar.ea = <<127>>
    /\ scalar.eb = <<129>>
    /\ LexLess(scalar.ea, scalar.eb)

\* C4: the float encoding orders non-NaN floats by value with -0.0 strictly
\* before +0.0: for two non-NaN bit patterns the encoded order equals the order
\* by value, and distinct patterns have distinct encodings.
C4_FloatOrder ==
    (/\ scalar.step = "encoded"
     /\ scalar.dt = "Float16"
     /\ ~F16IsNaN(scalar.a)
     /\ ~F16IsNaN(scalar.b)) =>
        /\ F16Less(scalar.a, scalar.b) <=> LexLess(scalar.ea, scalar.eb)
        /\ scalar.a # scalar.b => scalar.ea # scalar.eb

\* -0.0 (0x8000) against +0.0 (0x0000)
C4_Witness ==
    /\ scalar.step = "encoded"
    /\ scalar.dt = "Float16"
    /\ scalar.a = 32768
    /\ scalar.b = 0
    /\ LexLess(scalar.ea, scalar.eb)

\* C7: decode(encode(v)) = v for every value of every fixed-width scalar type,
\* and decoding the negated bytes with FromSlice's invert = true returns v too.
C7_ScalarRoundTrip ==
    scalar.step = "decoded" =>
        /\ scalar.da = Some(scalar.a)
        /\ scalar.dinv = Some(scalar.a)

\* a NaN with a payload, through the negated bytes
C7_Witness ==
    /\ scalar.step = "decoded"
    /\ scalar.dt = "Float16"
    /\ F16IsNaN(scalar.a)
    /\ F16Sign(scalar.a) = 1
    /\ scalar.dinv = Some(scalar.a)

(***************************************************************************)
(* Sort options, the null sentinel and the interner                        *)
(***************************************************************************)
SortOptions == [descending : BOOLEAN, nulls_first : BOOLEAN]

\* crate::row::null_sentinel, as the specification's section 6.3 gives it
null_sentinel(opts) == IF opts.nulls_first = opts.descending THEN 0 ELSE 255

\* The OrderPreservingInterner is held as the set of the value byte strings it
\* has interned; a handle (Interned) is the value it stands for.  A normalized
\* key is the value's bytes as two non-zero base-16 digits each, then the 0x00
\* terminator: order-preserving, 0x00-terminated, no interior 0x00.
RECURSIVE NormalizeFrom(_, _)
NormalizeFrom(v, i) ==
    IF i > Len(v) THEN <<0>>
    ELSE <<1 + (v[i] \div 16), 1 + (v[i] % 16)>> \o NormalizeFrom(v, i + 1)

normalized_key(interned) == NormalizeFrom(interned, 1)

\* OrderPreservingInterner::intern: the handles, and the interner afterwards
intern(interner, values) ==
    [handles |-> values,
     interner |-> interner \cup {Unwrap(values[i]) : i \in {k \in 1..Len(values) : IsSome(values[k])}}]

\* the value whose normalized key is key, if key is a normalized key
RECURSIVE DenormalizeFrom(_, _)
DenormalizeFrom(key, i) ==
    IF i >= Len(key) THEN << >>
    ELSE <<(key[i] - 1) * 16 + (key[i + 1] - 1)>> \o DenormalizeFrom(key, i + 2)

\* OrderPreservingInterner::lookup
lookup(interner, key) ==
    LET v == DenormalizeFrom(key, 1)
    IN  IF /\ Len(key) % 2 = 1
           /\ \A i \in 1..(Len(key) - 1) : key[i] \in 1..16
           /\ key[Len(key)] = 0
           /\ v \in interner
        THEN Some(v)
        ELSE None

\* OrderPreservingInterner::value
value(interned) == interned

TimeUnits == {"Second", "Millisecond", "Microsecond", "Nanosecond"}

\* the types held in a PrimitiveArray: the arms of downcast_primitive_array!,
\* which are the decode_primitive arms of decode_dictionary
PrimitiveTypes ==
    {"Int8", "Int16", "Int32", "Int64", "UInt8", "UInt16", "UInt32", "UInt64",
     "Float16", "Float32", "Float64", "Date32", "Date64",
     "Time32(Second)", "Time32(Millisecond)", "Time64(Microsecond)", "Time64(Nanosecond)",
     "Interval(YearMonth)", "Interval(DayTime)", "Interval(MonthDayNano)"}
    \cup {"Timestamp(" \o u \o ")" : u \in TimeUnits}
    \cup {"Duration(" \o u \o ")" : u \in TimeUnits}

\* a time type with a unit it cannot have
InvalidTimeTypes ==
    {"Time32(Microsecond)", "Time32(Nanosecond)", "Time64(Second)", "Time64(Millisecond)"}
BinaryTypes == {"Binary", "LargeBinary", "Utf8", "LargeUtf8"}

\* compute_dictionary_mapping: the handle of every dictionary value
compute_dictionary_mapping(interner, value_type, values) ==
    IF value_type \in PrimitiveTypes THEN
        [status |-> "Ok"] @@
        intern(interner,
               [i \in 1..Len(values) |->
                    IF IsSome(values[i])
                    THEN Some(T_encode(value_type, Unwrap(values[i]))) ELSE None])
    ELSE IF value_type \in BinaryTypes THEN
        [status |-> "Ok"] @@ intern(interner, values)
    ELSE [status |-> "NotYetImplemented", handles |-> << >>, interner |-> interner]

\* the normalized_keys slice handed to encode_dictionary
NormalizedKeys(handles) ==
    [i \in 1..Len(handles) |->
        IF IsSome(handles[i]) THEN Some(normalized_key(Unwrap(handles[i]))) ELSE None]

(***************************************************************************)
(* The column writers                                                      *)
(***************************************************************************)
Min(x, y) == IF x < y THEN x ELSE y

\* the same write one byte further on
WriteAt_next(buf, pos, bytes) ==
    SubSeq(buf, 1, pos + 1) \o bytes \o SubSeq(buf, pos + Len(bytes) + 2, Len(buf))

\* buffer[pos..pos + len].copy_from_slice(bytes), pos counted from 0
WriteAt(buf, pos, bytes) ==
    SubSeq(buf, 1, pos) \o bytes \o SubSeq(buf, pos + Len(bytes) + 1, Len(buf))

RECURSIVE encode_from(_, _, _, _, _)
\* the loop of encode from row i (counted from 1); offsets[i + 1] here is
\* out.offsets[i] of the code, the cursor of row i - 1
encode_from(out, dt, vals, opts, i) ==
    IF i > Min(Len(out.offsets) - 1, Len(vals)) THEN out
    ELSE
        LET offset == out.offsets[i + 1]
            end_offset == offset + ENCODED_LEN(dt)
            encoded == T_encode(dt, Unwrap(vals[i]))
            buf == IF IsSome(vals[i])
                   THEN WriteAt(out.buffer, offset,
                                <<1>> \o (IF opts.descending THEN NotBytes(encoded)
                                          ELSE encoded))
                   ELSE WriteAt(out.buffer, offset, <<null_sentinel(opts)>>)
        IN  encode_from([buffer |-> buf,
                         offsets |-> [out.offsets EXCEPT ![i + 1] = end_offset]],
                        dt, vals, opts, i + 1)

RECURSIVE encode_null_one_byte_from(_, _, _, _, _)
encode_null_one_byte_from(out, dt, vals, opts, i) ==
    IF i > Min(Len(out.offsets) - 1, Len(vals)) THEN out
    ELSE
        LET offset == out.offsets[i + 1]
            encoded == T_encode(dt, Unwrap(vals[i]))
        IN  IF IsSome(vals[i])
            THEN encode_null_one_byte_from(
                    [buffer |-> WriteAt(out.buffer, offset,
                                        <<1>> \o (IF opts.descending THEN NotBytes(encoded)
                                                  ELSE encoded)),
                     offsets |-> [out.offsets EXCEPT ![i + 1] = offset + ENCODED_LEN(dt)]],
                    dt, vals, opts, i + 1)
            ELSE encode_null_one_byte_from(
                    [buffer |-> WriteAt(out.buffer, offset, <<null_sentinel(opts)>>),
                     offsets |-> [out.offsets EXCEPT ![i + 1] = offset + 1]],
                    dt, vals, opts, i + 1)

encode_null_one_byte(out, dt, vals, opts) ==
    encode_null_one_byte_from(out, dt, vals, opts, 1)

RECURSIVE encode_invert_all_from(_, _, _, _, _)
encode_invert_all_from(out, dt, vals, opts, i) ==
    IF i > Min(Len(out.offsets) - 1, Len(vals)) THEN out
    ELSE
        LET offset == out.offsets[i + 1]
            segment == <<1>> \o T_encode(dt, Unwrap(vals[i]))
            buf == IF IsSome(vals[i])
                   THEN WriteAt(out.buffer, offset,
                                IF opts.descending THEN NotBytes(segment) ELSE segment)
                   ELSE WriteAt(out.buffer, offset, <<null_sentinel(opts)>>)
        IN  encode_invert_all_from(
                [buffer |-> buf,
                 offsets |-> [out.offsets EXCEPT ![i + 1] = offset + ENCODED_LEN(dt)]],
                dt, vals, opts, i + 1)

encode_invert_all(out, dt, vals, opts) == encode_invert_all_from(out, dt, vals, opts, 1)

\* fixed.rs encode
encode(out, dt, vals, opts) == encode_from(out, dt, vals, opts, 1)

\* the body of the loop of encode_dictionary for row i (counted from 1);
\* offsets[i + 1] here is out.offsets[i] of the code
encode_dictionary_row(out, keys, normalized_keys, opts, i) ==
    LET offset == out.offsets[i + 1]
        \* k.and_then(|k| normalized_keys[k.as_usize()])
        nk == IF IsSome(keys[i]) THEN normalized_keys[Unwrap(keys[i]) + 1] ELSE None
        normalized == Unwrap(nk)
        end_offset == offset + 1 + Len(normalized)
        segment == <<1>> \o normalized
    IN  IF IsSome(nk)
        THEN [buffer |-> WriteAt(out.buffer, offset,
                                 IF opts.descending THEN NotBytes(segment) ELSE segment),
              offsets |-> [out.offsets EXCEPT ![i + 1] = end_offset]]
        ELSE [buffer |-> WriteAt(out.buffer, offset, <<null_sentinel(opts)>>),
              offsets |-> [out.offsets EXCEPT ![i + 1] = offset + 1]]

RECURSIVE encode_dictionary_from(_, _, _, _, _, _)
\* the loop over the rows lo..hi, in order: the first half, then the second;
\* the zip ends with the shorter of the offsets and the keys
encode_dictionary_from(out, keys, normalized_keys, opts, lo, hi) ==
    IF lo > Min(Len(out.offsets) - 1, hi) THEN out
    ELSE IF lo = hi THEN encode_dictionary_row(out, keys, normalized_keys, opts, lo)
    ELSE encode_dictionary_from(
            encode_dictionary_from(out, keys, normalized_keys, opts, lo, (lo + hi) \div 2),
            keys, normalized_keys, opts, (lo + hi) \div 2 + 1, hi)

\* dictionary.rs encode_dictionary
encode_dictionary(out, keys, normalized_keys, opts) ==
    encode_dictionary_from(out, keys, normalized_keys, opts, 1, Len(keys))

(***************************************************************************)
(* The column readers.  A reader returns its array with a status: "Ok", an *)
(* ArrowError ("DictionaryKeyOverflowError", "NotYetImplemented"), or      *)
(* "Panic" when the code panics (an index out of range, an unwrap of None).*)
(* The row slices are advanced in place, so they are part of the result.   *)
(***************************************************************************)
Drop_short(s, n) == SubSeq(s, n, Len(s))
Drop(s, n) == SubSeq(s, n + 1, Len(s))

RECURSIVE decode_bool_from(_, _, _)
decode_bool_from(acc, options, i) ==
    IF i > Len(acc.rows) \/ acc.status # "Ok" THEN acc
    ELSE
        LET row == acc.rows[i]
            true_val == IF options.descending THEN NotByte(1) ELSE 1
            valid == row[1] = 1
            val == row[2] = true_val
        IN  IF Len(row) < 2 THEN [acc EXCEPT !.status = "Panic"]
            ELSE decode_bool_from(
                    [acc EXCEPT !.rows[i] = Drop(row, 2),
                                !.nulls = Append(@, valid),
                                !.values = Append(@, val),
                                !.null_count = @ + (IF valid THEN 0 ELSE 1)],
                    options, i + 1)

\* fixed.rs decode_bool
decode_bool(rs, options) ==
    decode_bool_from([status |-> "Ok", rows |-> rs, nulls |-> << >>,
                      values |-> << >>, null_count |-> 0], options, 1)

RECURSIVE decode_fixed_from(_, _, _, _)
decode_fixed_from(acc, dt, options, i) ==
    IF i > Len(acc.rows) \/ acc.status # "Ok" THEN acc
    ELSE
        LET row == acc.rows[i]
            item == SubSeq(row, 1, ENCODED_LEN(dt))
            valid == item[1] = 1
            val == from_slice(Tail(item), options.descending)
        IN  IF Len(row) < ENCODED_LEN(dt) THEN [acc EXCEPT !.status = "Panic"]
            ELSE decode_fixed_from(
                    [acc EXCEPT !.rows[i] = Drop(row, ENCODED_LEN(dt)),
                                !.nulls = Append(@, valid),
                                !.values = Append(@, T_decode(dt, val)),
                                !.null_count = @ + (IF valid THEN 0 ELSE 1)],
                    dt, options, i + 1)

decode_fixed_noinvert(rs, dt, options) ==
    decode_fixed_from([status |-> "Ok", rows |-> rs, nulls |-> << >>,
                       values |-> << >>, null_count |-> 0],
                      dt, [options EXCEPT !.descending = FALSE], 1)

\* fixed.rs decode_fixed
decode_fixed(rs, dt, options) ==
    decode_fixed_from([status |-> "Ok", rows |-> rs, nulls |-> << >>,
                       values |-> << >>, null_count |-> 0], dt, options, 1)

\* the largest K::Native
KeyMax(key_type) ==
    CASE key_type = "Int8" -> Pow2(7) - 1
      [] key_type = "UInt8" -> Pow2(8) - 1
      [] key_type = "Int16" -> Pow2(15) - 1

\* K::Native::from_usize
from_usize(key_type, k) == IF k <= KeyMax(key_type) THEN Some(k) ELSE None

\* row.iter().skip(1).position(|x| *x == null_terminator), counted from 0
RECURSIVE PositionFrom(_, _, _)
PositionFrom(row, null_terminator, j) ==
    IF j > Len(row) THEN None
    ELSE IF row[j] = null_terminator THEN Some(j - 2)
    ELSE PositionFrom(row, null_terminator, j + 1)

\* a map whose every entry is vacant
EntryOf_vacant(seen, h) == None

\* the index of handle h among the handles seen: the HashMap's entry
EntryOf(seen, h) ==
    IF \E p \in 1..Len(seen) : seen[p] = h
    THEN Some((CHOOSE p \in 1..Len(seen) : seen[p] = h) - 1)
    ELSE None

\* the body of the loop of decode_dictionary for row i; acc.seen lists the
\* handles in the order the HashMap first saw them and acc.values their
\* values; a panic or an error return ends the loop
decode_dictionary_row(acc, interner, key_type, options, i) ==
    LET row == acc.rows[i]
        null_terminator == IF options.descending THEN 255 ELSE 0
        key_offset == PositionFrom(row, null_terminator, 2)
        key == SubSeq(row, 2, Unwrap(key_offset) + 2)
        rest == Drop(row, Unwrap(key_offset) + 2)
        interned == lookup(interner, IF options.descending THEN NotBytes(key) ELSE key)
        entry == EntryOf(acc.seen, Unwrap(interned))
        k == Len(acc.values)
    IN  IF acc.status # "Ok" THEN acc
        ELSE IF Len(row) = 0 THEN [acc EXCEPT !.status = "Panic"]
        ELSE IF row[1] = null_sentinel(options) THEN
            [acc EXCEPT !.rows[i] = Drop(row, 1),
                        !.nulls = Append(@, FALSE),
                        !.null_count = @ + 1,
                        !.keys = Append(@, 0)]
        ELSE IF ~IsSome(key_offset) THEN [acc EXCEPT !.status = "Panic"]
        ELSE IF ~IsSome(interned) THEN
            [acc EXCEPT !.rows[i] = rest, !.status = "Panic"]
        ELSE IF IsSome(entry) THEN
            [acc EXCEPT !.rows[i] = rest,
                        !.keys = Append(@, Unwrap(entry)),
                        !.nulls = Append(@, TRUE)]
        ELSE IF ~IsSome(from_usize(key_type, k)) THEN
            [acc EXCEPT !.rows[i] = rest,
                        !.values = Append(@, value(Unwrap(interned))),
                        !.status = "DictionaryKeyOverflowError"]
        ELSE
            [acc EXCEPT !.rows[i] = rest,
                        !.seen = Append(@, Unwrap(interned)),
                        !.values = Append(@, value(Unwrap(interned))),
                        !.keys = Append(@, Unwrap(from_usize(key_type, k))),
                        !.nulls = Append(@, TRUE)]

RECURSIVE decode_dictionary_from(_, _, _, _, _, _)
\* the loop over the rows lo..hi, in order: the first half, then the second
decode_dictionary_from(acc, interner, key_type, options, lo, hi) ==
    IF lo > hi \/ acc.status # "Ok" THEN acc
    ELSE IF lo = hi THEN decode_dictionary_row(acc, interner, key_type, options, lo)
    ELSE decode_dictionary_from(
            decode_dictionary_from(acc, interner, key_type, options, lo, (lo + hi) \div 2),
            interner, key_type, options, (lo + hi) \div 2 + 1, hi)

\* the value types decode_dictionary builds a child for (the match on value_type)
DecodableValueTypes ==
    {"Null", "Boolean"} \cup PrimitiveTypes \cup DecimalTypes \cup
    {"Utf8", "LargeUtf8", "Binary", "LargeBinary"}

\* the child array: one decoded value per collected value
DecodeChild(value_type, values) ==
    [i \in 1..Len(values) |->
        CASE value_type = "Null" -> None
          [] value_type = "Boolean" -> decode_bool_value(<<values[i][1]>>)
          [] value_type \in PrimitiveTypes \cup DecimalTypes ->
                T_decode(value_type, from_slice(values[i], FALSE))
          [] OTHER -> values[i]]

decode_dictionary_unchecked(interner, key_type, value_type, options, rs) ==
    decode_dictionary_from(
        [status |-> "Ok", rows |-> rs, nulls |-> << >>, keys |-> << >>,
         null_count |-> 0, seen |-> << >>, values |-> << >>, child |-> << >>],
        interner, "Int16", options, 1, Len(rs))

\* dictionary.rs decode_dictionary
decode_dictionary(interner, key_type, value_type, options, rs) ==
    LET acc == decode_dictionary_from(
                [status |-> "Ok", rows |-> rs, nulls |-> << >>, keys |-> << >>,
                 null_count |-> 0, seen |-> << >>, values |-> << >>, child |-> << >>],
                interner, key_type, options, 1, Len(rs))
    IN  IF acc.status # "Ok" THEN acc
        \* DataType::Time32(t) / Time64(t) => match t { .., _ => unreachable!() }
        ELSE IF value_type \in InvalidTimeTypes THEN [acc EXCEPT !.status = "Panic"]
        ELSE IF value_type \notin DecodableValueTypes
             THEN [acc EXCEPT !.status = "NotYetImplemented"]
        ELSE [acc EXCEPT !.child = DecodeChild(value_type, acc.values)]

(***************************************************************************)
(* The converter: fields, input columns, the row buffer                    *)
(***************************************************************************)
MaxRows == 2

FixedKind(dt) == [dt |-> dt, key_type |-> "", value_type |-> ""]
DictionaryKind(k, v) == [dt |-> "Dictionary", key_type |-> k, value_type |-> v]

\* the column kinds of a one-column converter
SingleKinds ==
    {FixedKind(dt) : dt \in {"Boolean", "Int8", "UInt8", "Int16", "Float16", "Decimal128"}}
    \cup {DictionaryKind("Int8", "Utf8"), DictionaryKind("UInt8", "Int8")}

\* the column kinds of a two-column converter
FirstKinds == {FixedKind("Int8"), DictionaryKind("Int8", "Utf8")}
SecondKinds == {FixedKind("Boolean"), DictionaryKind("Int8", "Utf8")}

FieldOf(kind, opts) == kind @@ [opts |-> opts]

FieldLists ==
    {<<FieldOf(k, o)>> : k \in SingleKinds, o \in SortOptions}
    \cup {<<FieldOf(k1, o1), FieldOf(k2, o2)>> :
            k1 \in FirstKinds, o1 \in SortOptions, k2 \in SecondKinds, o2 \in SortOptions}

\* the non-null values the cells of a column are drawn from
ColValues(dt) ==
    CASE dt = "Boolean" -> {FALSE, TRUE}
      [] dt = "Int8" -> {-1, 1}
      [] dt = "UInt8" -> {0, 255}
      [] dt = "Int16" -> {-256, 255}
      [] dt = "Float16" -> {F16Bits(1, 0, 0), F16Bits(0, 15, 0)}   \* -0.0, 1.0
      [] dt = "Decimal128" -> {ToLeBytes(-1, 16), ToLeBytes(256, 16)}

\* the values array of a dictionary column; the one of a one-column converter
\* holds a null value and a repeated value
DictValues(value_type, single) ==
    IF value_type = "Utf8"
    THEN IF single THEN <<Some(<<98>>), None, Some(<<97, 97>>), Some(<<98>>)>>
         ELSE <<Some(<<98>>), Some(<<97, 97>>)>>
    ELSE <<Some(1), None, Some(-1), Some(1)>>

\* the input arrays of n rows for a field
ColumnsOf(field, n, single) ==
    IF field.dt = "Dictionary"
    THEN {[keys |-> ks, values |-> DictValues(field.value_type, single)] :
            ks \in [1..n -> {None} \cup
                    {Some(k) : k \in 0..(Len(DictValues(field.value_type, single)) - 1)}]}
    ELSE [1..n -> {None} \cup {Some(v) : v \in ColValues(field.dt)}]

\* every list of input arrays of n rows for the fields fs (one or two fields)
ColumnLists(fs, n) ==
    IF Len(fs) = 1
    THEN {<<c>> : c \in ColumnsOf(fs[1], n, TRUE)}
    ELSE {<<c1, c2>> : c1 \in ColumnsOf(fs[1], n, FALSE), c2 \in ColumnsOf(fs[2], n, FALSE)}

\* the interner of a field once its dictionary values are interned
InternerOf(field, column) ==
    IF field.dt = "Dictionary"
    THEN compute_dictionary_mapping({}, field.value_type, column.values).interner
    ELSE {}

\* the normalized_keys of a dictionary column
NormalizedKeysOf(field, column) ==
    NormalizedKeys(compute_dictionary_mapping({}, field.value_type, column.values).handles)

\* normalized_keys[k] of a dictionary column
NormalizedKeyAt(field, column, k) ==
    NormalizedKeys(compute_dictionary_mapping({}, field.value_type,
                                              <<column.values[k + 1]>>).handles)[1]

\* the bytes row i takes in a column: encoded_len for a fixed-width column,
\* one byte or one byte and the normalized key for a dictionary column
SegmentLength(field, column, i) ==
    IF field.dt = "Dictionary"
    THEN LET nk == IF IsSome(column.keys[i])
                   THEN NormalizedKeyAt(field, column, Unwrap(column.keys[i]))
                   ELSE None
         IN  IF IsSome(nk) THEN 1 + Len(Unwrap(nk)) ELSE 1
    ELSE ENCODED_LEN(field.dt)

RECURSIVE RowLengthFrom(_, _, _, _)
RowLengthFrom(fs, cols, i, j) ==
    IF j > Len(fs) THEN 0
    ELSE SegmentLength(fs[j], cols[j], i) + RowLengthFrom(fs, cols, i, j + 1)

RowLength(fs, cols, i) == RowLengthFrom(fs, cols, i, 1)

RowLengths(fs, cols, n) == [i \in 1..n |-> RowLength(fs, cols, i)]

RECURSIVE SumRange(_, _, _)
\* lens[lo] + ... + lens[hi]
SumRange(lens, lo, hi) ==
    IF lo > hi THEN 0
    ELSE IF lo = hi THEN lens[lo]
    ELSE SumRange(lens, lo, (lo + hi) \div 2) + SumRange(lens, (lo + hi) \div 2 + 1, hi)

RECURSIVE PrefixSums(_, _, _, _)
\* for each position of lo..hi the sum of the lengths before it; acc is the
\* sum of the lengths before lo
PrefixSums(lens, lo, hi, acc) ==
    IF lo > hi THEN << >>
    ELSE IF lo = hi THEN <<acc>>
    ELSE LET mid == (lo + hi) \div 2
         IN  PrefixSums(lens, lo, mid, acc)
             \o PrefixSums(lens, mid + 1, hi, acc + SumRange(lens, lo, mid))

\* the first byte of row i (counted from 1) in the buffer
RowStart(fs, cols, i) == SumRange(RowLengths(fs, cols, i), 1, i - 1)

\* a new Rows for n rows: a zeroed buffer of the summed row lengths, offsets[0]
\* zero and the cursor of each row at the row's first byte
RowsNew(fs, cols, n) ==
    LET lens == RowLengths(fs, cols, n)
        starts == PrefixSums(lens, 1, n, 0)
    IN  [buffer |-> [k \in 1..(starts[n] + lens[n]) |-> 0],
         offsets |-> <<0>> \o starts]

Init ==
    /\ scalar = ScalarIdle
    /\ mapping = MappingIdle
    /\ call = CallIdle
    /\ \E fs \in FieldLists : \E n \in 1..MaxRows : \E cols \in ColumnLists(fs, n) :
        /\ fields = fs
        /\ columns = cols
        /\ LET out == RowsNew(fs, cols, n)
           IN  /\ buffer = out.buffer
               /\ offsets = out.offsets
        /\ interners = [j \in 1..Len(fs) |-> InternerOf(fs[j], cols[j])]
    /\ written = 0
    /\ rows = << >>
    /\ arrays = << >>
    /\ pc = "encode"

\* the column writer of the next field, a fixed-width one
EncodeFixed ==
    /\ pc = "encode"
    /\ written < Len(fields)
    /\ fields[written + 1].dt # "Dictionary"
    /\ LET out == encode([buffer |-> buffer, offsets |-> offsets],
                         fields[written + 1].dt, columns[written + 1],
                         fields[written + 1].opts)
       IN  /\ buffer' = out.buffer
           /\ offsets' = out.offsets
    /\ written' = written + 1
    /\ UNCHANGED <<mapping, call, scalar, fields, columns, interners, rows, arrays, pc>>

\* the column writer of the next field, a dictionary
EncodeDictionary ==
    /\ pc = "encode"
    /\ written < Len(fields)
    /\ fields[written + 1].dt = "Dictionary"
    /\ LET out == encode_dictionary([buffer |-> buffer, offsets |-> offsets],
                                    columns[written + 1].keys,
                                    NormalizedKeysOf(fields[written + 1], columns[written + 1]),
                                    fields[written + 1].opts)
       IN  /\ buffer' = out.buffer
           /\ offsets' = out.offsets
    /\ written' = written + 1
    /\ UNCHANGED <<mapping, call, scalar, fields, columns, interners, rows, arrays, pc>>

\* row i of the finished Rows: buffer[offsets[i]..offsets[i + 1]]
RowBytes(i) == SubSeq(buffer, offsets[i] + 1, offsets[i + 1])

\* the caller takes the row slices of the finished Rows to decode them
RowsIter ==
    /\ pc = "encode"
    /\ written = Len(fields)
    /\ rows' = [i \in 1..(Len(offsets) - 1) |-> RowBytes(i)]
    /\ pc' = "decode"
    /\ UNCHANGED <<mapping, call, scalar, fields, columns, buffer, offsets, written, interners, arrays>>

\* a reader that leaves the slices as they were when it fails
Decoded_atomic(res) ==
    /\ arrays' = Append(arrays, [res EXCEPT !.rows = << >>])
    /\ rows' = IF res.status # "Ok" THEN rows ELSE res.rows
    /\ pc' = IF res.status # "Ok" THEN "failed"
             ELSE IF Len(arrays) + 1 = Len(fields) THEN "done"
             ELSE "decode"
    /\ UNCHANGED <<mapping, call, scalar, fields, columns, buffer, offsets, written, interners>>

\* what a reader leaves behind: the array, the advanced slices, the next step
Decoded(res) ==
    /\ arrays' = Append(arrays, [res EXCEPT !.rows = << >>])
    /\ rows' = res.rows
    /\ pc' = IF res.status # "Ok" THEN "failed"
             ELSE IF Len(arrays) + 1 = Len(fields) THEN "done"
             ELSE "decode"
    /\ UNCHANGED <<mapping, call, scalar, fields, columns, buffer, offsets, written, interners>>

DecodeBool ==
    /\ pc = "decode"
    /\ fields[Len(arrays) + 1].dt = "Boolean"
    /\ Decoded(decode_bool(rows, fields[Len(arrays) + 1].opts))

DecodeFixed ==
    /\ pc = "decode"
    /\ fields[Len(arrays) + 1].dt \notin {"Boolean", "Dictionary"}
    /\ Decoded(decode_fixed(rows, fields[Len(arrays) + 1].dt, fields[Len(arrays) + 1].opts))

DecodeDictionary ==
    /\ pc = "decode"
    /\ fields[Len(arrays) + 1].dt = "Dictionary"
    /\ Decoded(decode_dictionary(interners[Len(arrays) + 1],
                                 fields[Len(arrays) + 1].key_type,
                                 fields[Len(arrays) + 1].value_type,
                                 fields[Len(arrays) + 1].opts, rows))

Next ==
    \/ EncodeFixed
    \/ EncodeDictionary
    \/ RowsIter
    \/ DecodeBool
    \/ DecodeFixed
    \/ DecodeDictionary

Spec == Init /\ [][Next]_vars

(***************************************************************************)
(* Claims on the column writers and readers                                *)
(***************************************************************************)
NumRows == Len(offsets) - 1

\* the value of row i in column j: None for a null key or a null dictionary value
Cell(j, i) ==
    IF fields[j].dt = "Dictionary"
    THEN IF IsSome(columns[j].keys[i])
         THEN columns[j].values[Unwrap(columns[j].keys[i]) + 1]
         ELSE None
    ELSE columns[j][i]

RECURSIVE SegmentStart(_, _)
\* where the segment of column j starts in row i, counted from the buffer's start
SegmentStart(j, i) ==
    IF j = 1 THEN RowStart(fields, columns, i)
    ELSE SegmentStart(j - 1, i) + SegmentLength(fields[j - 1], columns[j - 1], i)

\* the bytes of row i that belong to column j
Segment(j, i) ==
    SubSeq(buffer, SegmentStart(j, i) + 1,
           SegmentStart(j, i) + SegmentLength(fields[j], columns[j], i))

\* the segment the column writer of column j writes for row i alone into a
\* fresh buffer, under the options opts
WrittenAlone(j, i, opts) ==
    LET len == SegmentLength(fields[j], columns[j], i)
        out == [buffer |-> [k \in 1..len |-> 0], offsets |-> <<0, 0>>]
    IN  IF fields[j].dt = "Dictionary"
        THEN encode_dictionary(out, <<columns[j].keys[i]>>,
                               NormalizedKeysOf(fields[j], columns[j]), opts).buffer
        ELSE encode(out, fields[j].dt, <<columns[j][i]>>, opts).buffer

Ascending(opts) == [opts EXCEPT !.descending = FALSE]

\* x against y in the order of a column's values: -1, 0 or 1
ValueCmp(field, x, y) ==
    LET type == IF field.dt = "Dictionary" THEN field.value_type ELSE field.dt
        less(u, v) == IF type \in BinaryTypes THEN LexLess(u, v) ELSE NativeLess(type, u, v)
    IN  IF less(x, y) THEN -1 ELSE IF less(y, x) THEN 1 ELSE 0

\* two cells of a column under its sort options: nulls_first decides where
\* nulls go, descending reverses the values
CellCmp(field, x, y) ==
    IF ~IsSome(x) /\ ~IsSome(y) THEN 0
    ELSE IF ~IsSome(x) THEN (IF field.opts.nulls_first THEN -1 ELSE 1)
    ELSE IF ~IsSome(y) THEN (IF field.opts.nulls_first THEN 1 ELSE -1)
    ELSE IF field.opts.descending THEN 0 - ValueCmp(field, Unwrap(x), Unwrap(y))
    ELSE ValueCmp(field, Unwrap(x), Unwrap(y))

RECURSIVE TupleCmpFrom(_, _, _)
\* rows i1 and i2 compared column by column from column j
TupleCmpFrom(i1, i2, j) ==
    IF j > Len(fields) THEN 0
    ELSE IF CellCmp(fields[j], Cell(j, i1), Cell(j, i2)) # 0
         THEN CellCmp(fields[j], Cell(j, i1), Cell(j, i2))
    ELSE TupleCmpFrom(i1, i2, j + 1)

\* C1: for any two rows encoded from the same columns and options, the
\* unsigned lexicographic comparison of the encoded rows equals the
\* column-by-column comparison of the values under those options.
C1_RowOrder ==
    (pc = "encode" /\ written = Len(fields)) =>
        \A i1, i2 \in 1..NumRows :
            LexCmp(RowBytes(i1), RowBytes(i2), 1) = TupleCmpFrom(i1, i2, 1)

\* C2: decoding the rows of a fixed-width column with the same type and
\* options gives the same validity at every row and the same value at every
\* non-null row.
C2_ColumnRoundTrip ==
    \A j \in 1..Len(arrays) :
        fields[j].dt # "Dictionary" =>
            /\ arrays[j].status = "Ok"
            /\ Len(arrays[j].nulls) = NumRows
            /\ Len(arrays[j].values) = NumRows
            /\ \A i \in 1..NumRows :
                /\ arrays[j].nulls[i] = IsSome(columns[j][i])
                /\ IsSome(columns[j][i]) => arrays[j].values[i] = Unwrap(columns[j][i])

\* a descending half-float column with a null and -0.0, decoded
C2_Witness ==
    /\ pc = "done"
    /\ Len(fields) = 1
    /\ fields[1].dt = "Float16"
    /\ fields[1].opts.descending
    /\ columns[1] = <<None, Some(F16Bits(1, 0, 0))>>
    /\ arrays[1].nulls = <<FALSE, TRUE>>
    /\ arrays[1].values[2] = F16Bits(1, 0, 0)

\* C5: with the null sentinel 0x00 when nulls_first = descending and 0xFF
\* otherwise, the segment of a null compares less than the segment of every
\* present value when nulls_first is set and greater when it is not.
C5_NullPlacement ==
    \A j \in 1..written : \A i1, i2 \in 1..NumRows :
        (~IsSome(Cell(j, i1)) /\ IsSome(Cell(j, i2))) =>
            IF fields[j].opts.nulls_first
            THEN LexLess(Segment(j, i1), Segment(j, i2))
            ELSE LexLess(Segment(j, i2), Segment(j, i1))

MaxDistinct == 258

\* dictionary value number v: two bytes, distinct for distinct v
WideValue(v) == <<v \div 256, v % 256>>

\* the dictionary sizes tried: small ones, and the ones at the ends of the
\* one-byte key ranges
DistinctCounts == {1, 2, 128, 129, 256, 257, MaxDistinct}

\* the numbers of rows tried with d distinct values: one row a value, and
\* for the small dictionaries many rows
RowCounts(d) == IF d <= 2 THEN {d, MaxDistinct + 1} ELSE {d}

\* a dictionary column of d distinct values and n rows that uses every value
\* in turn; its first row is null when first_null
WideColumn(d, n, first_null) ==
    [keys |-> [i \in 1..n |-> IF first_null /\ i = 1 THEN None ELSE Some((i - 1) % d)],
     values |-> [k \in 1..d |-> Some(WideValue(k - 1))]]

InitOverflow ==
    /\ scalar = ScalarIdle
    /\ mapping = MappingIdle
    /\ call = CallIdle
    /\ \E k \in {"Int8", "UInt8", "Int16"} : \E o \in SortOptions :
       \E d \in DistinctCounts : \E n \in RowCounts(d) : \E first_null \in BOOLEAN :
        LET fs == <<FieldOf(DictionaryKind(k, "Utf8"), o)>>
            cols == <<WideColumn(d, n, first_null)>>
            out == RowsNew(fs, cols, n)
        IN  /\ fields = fs
            /\ columns = cols
            /\ buffer = out.buffer
            /\ offsets = out.offsets
            /\ interners = <<InternerOf(fs[1], cols[1])>>
    /\ written = 0
    /\ rows = << >>
    /\ arrays = << >>
    /\ pc = "encode"

NextOverflow ==
    \/ EncodeDictionary
    \/ RowsIter
    \/ DecodeDictionary

SpecOverflow == InitOverflow /\ [][NextOverflow]_vars

\* the distinct non-null values the rows of dictionary column j refer to
DistinctValues(j) ==
    {columns[j].values[Unwrap(columns[j].keys[i]) + 1] :
        i \in {r \in 1..NumRows : IsSome(columns[j].keys[r])}} \ {None}

\* C9: decode_dictionary fails with DictionaryKeyOverflowError exactly when
\* the distinct non-null values of the rows need a dense index k that
\* K::Native::from_usize(k) cannot represent, and succeeds otherwise whatever
\* the number of rows; with a one-byte key type more than 256 distinct values
\* always fail
C9_KeyOverflow ==
    (pc \in {"done", "failed"} /\ fields[1].dt = "Dictionary") =>
        LET d == Cardinality(DistinctValues(1))
            K == fields[1].key_type
            overflows == \E k \in 0..(d - 1) : ~IsSome(from_usize(K, k))
        IN  /\ arrays[1].status =
                    (IF overflows THEN "DictionaryKeyOverflowError" ELSE "Ok")
            /\ (K \in {"Int8", "UInt8"} /\ d > 256) =>
                    arrays[1].status = "DictionaryKeyOverflowError"

\* an unsigned one-byte key and 257 distinct values: the first overflow
C9_Witness ==
    /\ pc = "failed"
    /\ fields[1].key_type = "UInt8"
    /\ Cardinality(DistinctValues(1)) = 257
    /\ arrays[1].status = "DictionaryKeyOverflowError"

\* many rows, few distinct values, a signed one-byte key: the decode succeeds
C9_ManyRows ==
    /\ pc = "done"
    /\ fields[1].key_type = "Int8"
    /\ NumRows > 256
    /\ Cardinality(DistinctValues(1)) = 2
    /\ arrays[1].status = "Ok"

(***************************************************************************)
(* Readers on row slices the caller supplies: the slices are any bytes.    *)
(* The buffer keeps the supplied bytes, rows is the slice being advanced.  *)
(***************************************************************************)
MaxSliceLen == 4

\* the bytes of a supplied slice: the validity bytes, their inversions, a
\* byte that is neither
SliceBytes == {0, 1, 2, 254, 255}

RECURSIVE SlicesOf(_)
SlicesOf(n) ==
    IF n = 0 THEN {<< >>}
    ELSE SlicesOf(n - 1) \cup
         {Append(r, b) : r \in {q \in SlicesOf(n - 1) : Len(q) = n - 1}, b \in SliceBytes}

\* the fields read, and the values the interner of a dictionary field holds:
\* the empty string (key 00) and the one-byte string 00 (key 01 01 00)
DecodeKinds == {FixedKind("Boolean"), FixedKind("Int8"), DictionaryKind("Int8", "Utf8")}
DecodeInterner == {<< >>, <<0>>}

InitDecode ==
    /\ scalar = ScalarIdle
    /\ mapping = MappingIdle
    /\ call = CallIdle
    /\ \E kind \in DecodeKinds : \E o \in SortOptions : \E r \in SlicesOf(MaxSliceLen) :
        /\ fields = <<FieldOf(kind, o)>>
        /\ interners = <<IF kind.dt = "Dictionary" THEN DecodeInterner ELSE {}>>
        /\ buffer = r
        /\ offsets = <<0, Len(r)>>
        /\ rows = <<r>>
    /\ columns = << >>
    /\ written = 0
    /\ arrays = << >>
    /\ pc = "decode"

NextDecode ==
    \/ DecodeBool
    \/ DecodeFixed
    \/ DecodeDictionary

SpecDecode == InitDecode /\ [][NextDecode]_vars

\* the validity byte of a segment once the descending inversion is undone
ValidityOf(row, opts) == IF opts.descending THEN NotByte(row[1]) ELSE row[1]

\* a supplied slice is malformed for a field: a dictionary slice that is
\* empty or has no terminator after its validity byte, or a first byte that
\* is neither the valid byte nor the null sentinel
Malformed(field, row) ==
    \/ /\ field.dt = "Dictionary"
       /\ \/ Len(row) = 0
          \/ /\ row[1] # null_sentinel(field.opts)
             /\ ~IsSome(PositionFrom(row, IF field.opts.descending THEN 255 ELSE 0, 2))
    \/ /\ Len(row) > 0
       /\ row[1] # null_sentinel(field.opts)
       /\ ValidityOf(row, field.opts) # 1

\* C10: decoding a malformed row returns a MalformedRow error and never
\* panics
C10_MalformedRowReported ==
    (pc \in {"done", "failed"} /\ columns = << >> /\ Malformed(fields[1], RowBytes(1)))
        => arrays[1].status = "MalformedRow"

(***************************************************************************)
(* The dispatch on the dictionary value type, on both sides: a dictionary  *)
(* with no non-null value, so that only the dispatch decides the result    *)
(***************************************************************************)
\* types neither side has an arm for
OtherTypes ==
    {"FixedSizeBinary", "List", "LargeList", "FixedSizeList", "Struct", "Union", "Map",
     "Dictionary"}

ValueTypes ==
    {"Null", "Boolean"} \cup PrimitiveTypes \cup InvalidTimeTypes \cup DecimalTypes
    \cup BinaryTypes \cup OtherTypes

InitDispatch ==
    /\ scalar = ScalarIdle
    /\ mapping = MappingIdle
    /\ call = CallIdle
    /\ \E vt \in ValueTypes : \E k \in {"Int8", "UInt8", "Int16"} : \E o \in SortOptions :
       \E n \in 0..1 : \E vals \in {<< >>, <<None>>} :
        /\ fields = <<FieldOf(DictionaryKind(k, vt), o)>>
        /\ columns = <<[keys |-> [i \in 1..n |-> None], values |-> vals]>>
        /\ buffer = [i \in 1..n |-> null_sentinel(o)]
        /\ offsets = [i \in 1..(n + 1) |-> i - 1]
        /\ rows = [i \in 1..n |-> <<null_sentinel(o)>>]
    /\ interners = <<{}>>
    /\ written = 0
    /\ arrays = << >>
    /\ pc = "decode"

\* compute_dictionary_mapping on the values of the dictionary column
ComputeDictionaryMapping ==
    /\ pc # "idle"
    /\ mapping = MappingIdle
    /\ Len(fields) = 1
    /\ fields[1].dt = "Dictionary"
    /\ mapping' = compute_dictionary_mapping(interners[1], fields[1].value_type,
                                             columns[1].values)
    /\ interners' = <<mapping'.interner>>
    /\ UNCHANGED <<scalar, call, fields, columns, buffer, offsets, written, rows, arrays, pc>>

NextDispatch ==
    \/ ComputeDictionaryMapping
    \/ DecodeDictionary

SpecDispatch == InitDispatch /\ [][NextDispatch]_vars

\* C11: for every value type compute_dictionary_mapping returns
\* NotYetImplemented if and only if decode_dictionary does, and neither side
\* panics on a type without a codec.
C11_DispatchAgrees ==
    (mapping # MappingIdle /\ Len(arrays) = 1) =>
        /\ (mapping.status = "NotYetImplemented") <=> (arrays[1].status = "NotYetImplemented")
        /\ mapping.status # "Panic"
        /\ arrays[1].status # "Panic"

(***************************************************************************)
(* 64-bit arithmetic.  A natural number wider than the checker's integers  *)
(* is its bits, least significant first, without leading zero bits; an     *)
(* integer is a sign and a magnitude, zero being non-negative.             *)
(***************************************************************************)
RECURSIVE NatBits(_)
NatBits(n) == IF n = 0 THEN << >> ELSE <<n % 2>> \o NatBits(n \div 2)

RECURSIVE BitsNat(_)
\* the number of a bit string that fits the checker's integers
BitsNat(a) == IF Len(a) = 0 THEN 0 ELSE Head(a) + 2 * BitsNat(Tail(a))

RECURSIVE Trim(_)
Trim(a) ==
    IF Len(a) = 0 THEN a
    ELSE IF a[Len(a)] = 0 THEN Trim(SubSeq(a, 1, Len(a) - 1))
    ELSE a

BitAt(a, i) == IF i <= Len(a) THEN a[i] ELSE 0

RECURSIVE AddBits(_, _, _, _, _)
\* the bits of a + b from bit i up, after the bits acc
AddBits(a, b, i, carry, acc) ==
    IF (i > Len(a) /\ i > Len(b)) \/ carry + Len(acc) < 0
    THEN (IF carry = 0 THEN acc ELSE Append(acc, 1))
    ELSE AddBits(a, b, i + 1, (BitAt(a, i) + BitAt(b, i) + carry) \div 2,
                 Append(acc, (BitAt(a, i) + BitAt(b, i) + carry) % 2))

NatAdd(a, b) == Trim(AddBits(a, b, 1, 0, << >>))

RECURSIVE SubBits(_, _, _, _, _)
\* the bits of a - b from bit i up, after the bits acc, for a >= b
SubBits(a, b, i, borrow, acc) ==
    IF i > Len(a) \/ borrow + Len(acc) < 0 THEN acc
    ELSE SubBits(a, b, i + 1, IF a[i] - BitAt(b, i) - borrow < 0 THEN 1 ELSE 0,
                 Append(acc, (a[i] - BitAt(b, i) - borrow) % 2))

NatSub(a, b) == Trim(SubBits(a, b, 1, 0, << >>))

RECURSIVE NatLessFrom(_, _, _)
\* a < b for bit strings of one length, from bit i down
NatLessFrom(a, b, i) ==
    IF i = 0 THEN FALSE
    ELSE IF a[i] # b[i] THEN a[i] < b[i]
    ELSE NatLessFrom(a, b, i - 1)

NatLess(a, b) == Len(a) < Len(b) \/ (Len(a) = Len(b) /\ NatLessFrom(a, b, Len(a)))

\* 2 * a
NatDouble(a) == IF Len(a) = 0 THEN a ELSE <<0>> \o a

RECURSIVE MulFrom(_, _, _, _)
\* a * b from bit i of a down, acc the product of the bits above i
MulFrom(a, b, i, acc) ==
    IF i = 0 \/ Len(acc) < 0 THEN acc
    ELSE MulFrom(a, b, i - 1, NatAdd(NatDouble(acc), IF a[i] = 1 THEN b ELSE << >>))

NatMul(a, b) == MulFrom(a, b, Len(a), << >>)

\* one step of the long division by b: the quotient and remainder of the
\* higher bits, then the next bit down
DivStep(bit, hi, b) ==
    IF NatLess(Trim(<<bit>> \o hi.r), b)
    THEN [q |-> NatDouble(hi.q), r |-> Trim(<<bit>> \o hi.r)]
    ELSE [q |-> <<1>> \o hi.q, r |-> NatSub(Trim(<<bit>> \o hi.r), b)]

RECURSIVE DivFrom(_, _, _, _)
\* the long division of a by b from bit i down, acc the result for the bits
\* above i
DivFrom(a, b, i, acc) ==
    IF i = 0 \/ Len(acc.r) > Len(b) THEN acc
    ELSE DivFrom(a, b, i - 1, DivStep(a[i], acc, b))

\* a / b and a % b for b > 0
NatDivMod(a, b) == DivFrom(a, b, Len(a), [q |-> << >>, r |-> << >>])

\* the low w bits of a
NatLow(a, w) == Trim(SubSeq(a, 1, IF Len(a) < w THEN Len(a) ELSE w))

RECURSIVE NatPow2(_)
\* 2^w
NatPow2(w) == IF w = 0 THEN <<1>> ELSE <<0>> \o NatPow2(w - 1)

NatEq(a, b) == Len(a) = Len(b) /\ \A i \in 1..Len(a) : a[i] = b[i]

IntOf(n) == [neg |-> n < 0, mag |-> NatBits(IF n < 0 THEN 0 - n ELSE n)]
IntMake(neg, mag) == [neg |-> neg /\ Len(mag) > 0, mag |-> mag]
IntNeg(x) == IntMake(~x.neg, x.mag)
IntIsNeg(x) == x.neg

IntAdd(x, y) ==
    IF x.neg = y.neg THEN IntMake(x.neg, NatAdd(x.mag, y.mag))
    ELSE IF NatLess(x.mag, y.mag) THEN IntMake(y.neg, NatSub(y.mag, x.mag))
    ELSE IntMake(x.neg, NatSub(x.mag, y.mag))

IntSub(x, y) == IntAdd(x, IntNeg(y))
IntMul(x, y) == IntMake(x.neg # y.neg, NatMul(x.mag, y.mag))
IntLess(x, y) == IntIsNeg(IntSub(x, y))
IntEq(x, y) == x.neg = y.neg /\ NatEq(x.mag, y.mag)
IntLeq(x, y) == IntLess(x, y) \/ IntEq(x, y)
IntZero == IntOf(0)

\* the value as a checker integer, when it fits
IntSmall(x) == IF x.neg THEN 0 - BitsNat(x.mag) ELSE BitsNat(x.mag)

\* ---------------------------------------------------------------------
\* arrow-array/src/temporal_conversions.rs: splitting a count of
\* sub-second units into seconds and a non-negative fraction.  i64 and u32
\* values are integers of the library above.

MILLISECONDS == 1000
MICROSECONDS == 1000000
NANOSECONDS == 1000000000

I64Min == IntMake(TRUE, NatPow2(63))
I64Max == IntMake(FALSE, NatSub(NatPow2(63), <<1>>))
Two64 == IntMake(FALSE, NatPow2(64))

\* the two's complement i64 of an integer within one period of the range
wrapping_i64(x) ==
    IF IntLess(I64Max, x) THEN IntSub(x, Two64)
    ELSE IF IntLess(x, I64Min) THEN IntAdd(x, Two64)
    ELSE x

\* i64 `/` and `%`: the quotient rounds toward zero and the remainder takes
\* the sign of the dividend (rhs # 0)
div_trunc(lhs, rhs) == IntMake(lhs.neg # rhs.neg, NatDivMod(lhs.mag, rhs.mag).q)
rem_trunc(lhs, rhs) == IntMake(lhs.neg, NatDivMod(lhs.mag, rhs.mag).r)

\* i64::div_euclid
div_euclid_trunc(lhs, rhs) == div_trunc(lhs, rhs)
div_euclid(lhs, rhs) ==
    IF IntIsNeg(rem_trunc(lhs, rhs))
    THEN (IF IntLess(IntZero, rhs)
          THEN IntSub(div_trunc(lhs, rhs), IntOf(1))
          ELSE IntAdd(div_trunc(lhs, rhs), IntOf(1)))
    ELSE div_trunc(lhs, rhs)

\* i64::rem_euclid
rem_euclid(lhs, rhs) ==
    IF IntIsNeg(rem_trunc(lhs, rhs))
    THEN wrapping_i64(IntAdd(rem_trunc(lhs, rhs), IntMake(FALSE, rhs.mag)))
    ELSE rem_trunc(lhs, rhs)

\* `as u32` of an i64: the low 32 bits of the two's complement
as_u32(x) ==
    IF IntIsNeg(x) THEN IntMake(FALSE, NatLow(IntAdd(x, Two64).mag, 32))
    ELSE IntMake(FALSE, NatLow(x.mag, 32))

\* v.div_euclid(base) and v.rem_euclid(base) panic on a zero divisor and on
\* i64::MIN / -1
split_second(v, base) ==
    IF IntEq(base, IntZero) \/ (IntEq(v, I64Min) /\ IntEq(base, IntOf(-1)))
    THEN [status |-> "Panic"]
    ELSE [status |-> "Ok",
          sec |-> div_euclid(v, base),
          frac |-> as_u32(rem_euclid(v, base))]

\* u32 `*`: a product of 2^32 or more panics in a debug build and wraps in a
\* release build; status "Overflow" stands for both and nsecs is the
\* wrapped product
mul_u32(a, b) ==
    [overflow |-> ~NatLess(NatMul(a.mag, b.mag), NatPow2(32)),
     value |-> IntMake(FALSE, NatLow(NatMul(a.mag, b.mag), 32))]

\* the arguments handed to NaiveDateTime::from_timestamp(secs, nsecs)
from_timestamp(secs, prod) ==
    [status |-> IF prod.overflow THEN "Overflow" ELSE "Ok",
     secs |-> secs, nsecs |-> prod.value]

NoOverflow(x) == [overflow |-> FALSE, value |-> x]

date64_to_datetime(v) ==
    from_timestamp(split_second(v, IntOf(MILLISECONDS)).sec,
                   mul_u32(split_second(v, IntOf(MILLISECONDS)).frac,
                           as_u32(IntOf(MICROSECONDS))))

timestamp_ms_to_datetime(v) ==
    from_timestamp(split_second(v, IntOf(MILLISECONDS)).sec,
                   mul_u32(split_second(v, IntOf(MILLISECONDS)).frac,
                           as_u32(IntOf(MICROSECONDS))))

timestamp_us_to_datetime_micro(v) ==
    from_timestamp(split_second(v, IntOf(MICROSECONDS)).sec,
                   mul_u32(split_second(v, IntOf(MICROSECONDS)).frac,
                           as_u32(IntOf(MICROSECONDS))))
timestamp_us_to_datetime(v) ==
    from_timestamp(split_second(v, IntOf(MICROSECONDS)).sec,
                   mul_u32(split_second(v, IntOf(MICROSECONDS)).frac,
                           as_u32(IntOf(MILLISECONDS))))

timestamp_ns_to_datetime(v) ==
    from_timestamp(split_second(v, IntOf(NANOSECONDS)).sec,
                   NoOverflow(split_second(v, IntOf(NANOSECONDS)).frac))

\* ---------------------------------------------------------------------
\* The conversions called on sample arguments: the ends of the i64 range
\* and the values within MaxNear of zero, of powers of two and of multiples
\* of the sub-second bases, with either sign.

MaxNear == 2

Near(x) == {IntAdd(x, IntOf(d)) : d \in (0 - MaxNear)..MaxNear}

Anchors ==
    {IntZero, IntOf(100)}
    \cup {IntMake(FALSE, NatPow2(e)) : e \in {10, 31, 32, 33, 62}}
    \cup {IntMul(IntOf(k), IntOf(b)) :
              k \in {1, 123}, b \in {MILLISECONDS, MICROSECONDS, NANOSECONDS}}
    \cup {IntAdd(IntMul(IntOf(123), IntOf(NANOSECONDS)), IntOf(456))}

I64Values ==
    {I64Min, I64Max} \cup UNION {Near(a) \cup Near(IntNeg(a)) : a \in Anchors}

Bases ==
    {IntOf(b) : b \in {-1000, -1, 0, 1, 2, 3, MILLISECONDS, MICROSECONDS, NANOSECONDS}}
    \cup {IntMake(FALSE, NatPow2(31)), I64Max}
    \cup {IntAdd(IntMake(FALSE, NatPow2(e)), IntOf(d)) : e \in {32, 33, 62}, d \in {-1, 0, 1}}

DatetimeFns ==
    {"date64_to_datetime", "timestamp_ms_to_datetime",
     "timestamp_us_to_datetime", "timestamp_ns_to_datetime"}

InitTemporal ==
    /\ scalar = ScalarIdle
    /\ PipelineIdle
    /\ mapping = MappingIdle
    /\ \/ \E v \in I64Values, base \in Bases :
              call = [fn |-> "split_second", v |-> v, base |-> base, ret |-> None]
       \/ \E f \in DatetimeFns, v \in I64Values :
              call = [fn |-> f, v |-> v, ret |-> None]

Return(f, result) ==
    /\ call.fn = f
    /\ call.ret = None
    /\ call' = [call EXCEPT !.ret = Some(result)]
    /\ UNCHANGED <<scalar, mapping, fields, columns, buffer, offsets, written,
                   interners, rows, arrays, pc>>

SplitSecond == call.fn = "split_second" /\ Return("split_second", split_second(call.v, call.base))
Date64ToDatetime == call.fn = "date64_to_datetime" /\ Return("date64_to_datetime", date64_to_datetime(call.v))
TimestampMsToDatetime == call.fn = "timestamp_ms_to_datetime" /\ Return("timestamp_ms_to_datetime", timestamp_ms_to_datetime(call.v))
TimestampUsToDatetime == call.fn = "timestamp_us_to_datetime" /\ Return("timestamp_us_to_datetime", timestamp_us_to_datetime(call.v))
TimestampNsToDatetime == call.fn = "timestamp_ns_to_datetime" /\ Return("timestamp_ns_to_datetime", timestamp_ns_to_datetime(call.v))

NextTemporal ==
    \/ SplitSecond
    \/ Date64ToDatetime
    \/ TimestampMsToDatetime
    \/ TimestampUsToDatetime
    \/ TimestampNsToDatetime

SpecTemporal == InitTemporal /\ [][NextTemporal]_vars

Returned(f) == call.fn = f /\ call.ret # None

\* s * base + f = v and 0 <= f < base for the pair (s, f) of a result
Splits(r, v, base) ==
    /\ IntEq(IntAdd(IntMul(r.sec, base), r.frac), v)
    /\ IntLeq(IntZero, r.frac)
    /\ IntLess(r.frac, base)

\* C12 as stated: for every i64 v and every base > 0 of the i64 range,
\* split_second(v, base) returns (s, f) with s * base + f = v and
\* 0 <= f < base, f being the returned u32.
C12_SplitAnyBase ==
    (Returned("split_second") /\ IntLess(IntZero, call.base)) =>
        /\ call.ret[1].status = "Ok"
        /\ Splits(call.ret[1], call.v, call.base)

\* C12 amended: for every i64 v and every base with 0 < base <= 2^32,
\* split_second(v, base) returns (s, f) with s * base + f = v and
\* 0 <= f < base; split_second(-123_000_000_001, 1_000_000_000) is
\* (-124, 999_999_999).
C12_SplitBaseU32 ==
    (/\ Returned("split_second")
     /\ IntLess(IntZero, call.base)
     /\ IntLeq(call.base, IntMake(FALSE, NatPow2(32)))) =>
        /\ call.ret[1].status = "Ok"
        /\ Splits(call.ret[1], call.v, call.base)
        /\ (/\ IntEq(call.v, IntSub(IntMul(IntOf(-123), IntOf(NANOSECONDS)), IntOf(1)))
            /\ IntEq(call.base, IntOf(NANOSECONDS))) =>
               /\ IntEq(call.ret[1].sec, IntOf(-124))
               /\ IntEq(call.ret[1].frac, IntOf(999999999))

C12_Witness ==
    /\ Returned("split_second")
    /\ IntEq(call.v, IntSub(IntMul(IntOf(-123), IntOf(NANOSECONDS)), IntOf(1)))
    /\ IntEq(call.base, IntOf(NANOSECONDS))
    /\ IntEq(call.ret[1].sec, IntOf(-124))

UnitsPerSecond(f) ==
    IF f = "timestamp_us_to_datetime" THEN IntOf(MICROSECONDS)
    ELSE IF f = "timestamp_ns_to_datetime" THEN IntOf(NANOSECONDS)
    ELSE IntOf(MILLISECONDS)

NanosPerUnit(f) ==
    IF f = "timestamp_us_to_datetime" THEN IntOf(1000)
    ELSE IF f = "timestamp_ns_to_datetime" THEN IntOf(1)
    ELSE IntOf(1000000)

\* v - secs * units: v mod units when secs is floor(v / units)
UnitsLeft(r, v, units) == IntSub(v, IntMul(r.secs, units))

\* C13: for every i64 v, negative ones included, the four conversions hand
\* from_timestamp seconds = floor(v / units_per_second) and nanoseconds =
\* (v mod units_per_second) * nanos_per_unit; the nanoseconds lie in
\* [0, 10^9) and the product does not overflow 32 bits; -1 ms gives
\* (-1, 999_000_000) and -1_001 ms gives (-2, 999_000_000).
C13_DatetimeArguments ==
    (call.fn \in DatetimeFns /\ call.ret # None) =>
        /\ call.ret[1].status = "Ok"
        /\ IntLeq(IntZero, UnitsLeft(call.ret[1], call.v, UnitsPerSecond(call.fn)))
        /\ IntLess(UnitsLeft(call.ret[1], call.v, UnitsPerSecond(call.fn)),
                   UnitsPerSecond(call.fn))
        /\ IntEq(call.ret[1].nsecs,
                 IntMul(UnitsLeft(call.ret[1], call.v, UnitsPerSecond(call.fn)),
                        NanosPerUnit(call.fn)))
        /\ IntLeq(IntZero, call.ret[1].nsecs)
        /\ IntLess(call.ret[1].nsecs, IntOf(1000000000))
        /\ (call.fn \in {"timestamp_ms_to_datetime", "date64_to_datetime"}
            /\ IntEq(call.v, IntOf(-1))) =>
               /\ IntEq(call.ret[1].secs, IntOf(-1))
               /\ IntEq(call.ret[1].nsecs, IntOf(999000000))
        /\ (call.fn \in {"timestamp_ms_to_datetime", "date64_to_datetime"}
            /\ IntEq(call.v, IntOf(-1001))) =>
               /\ IntEq(call.ret[1].secs, IntOf(-2))
               /\ IntEq(call.ret[1].nsecs, IntOf(999000000))

C13_Witness ==
    /\ Returned("timestamp_us_to_datetime")
    /\ IntEq(call.v, IntOf(-1000001))
    /\ IntEq(call.ret[1].secs, IntOf(-2))
    /\ IntEq(call.ret[1].nsecs, IntOf(999999000))

\* ---------------------------------------------------------------------
\* The slot of a null row in a decoded fixed-width column

\* the zero of the native type of dt
ZeroValue(dt) ==
    CASE dt = "Boolean" -> FALSE
      [] dt = "Float16" -> F16Bits(0, 0, 0)
      [] dt \in {"Decimal128", "Decimal256"} -> ToLeBytes(0, EncodedSize(dt))
      [] OTHER -> 0

\* C14: in a decoded fixed-width column every null row has its validity bit
\* cleared and its slot of the value buffer holds the zero of the type (0,
\* +0.0, all-zero bytes, false), ascending and descending, the writer having
\* left the payload of the null as the zero bytes of the new buffer.
C14_NullSlotZero ==
    \A j \in 1..Len(arrays) :
        (fields[j].dt # "Dictionary" /\ arrays[j].status = "Ok") =>
            \A i \in 1..NumRows :
                ~IsSome(columns[j][i]) =>
                    /\ ~arrays[j].nulls[i]
                    /\ arrays[j].values[i] = ZeroValue(fields[j].dt)

\* ---------------------------------------------------------------------
\* The dictionary a decoded dictionary column comes back with

\* the first row of column j whose value is x
FirstRow(j, x) == CHOOSE i \in 1..NumRows :
    /\ Cell(j, i) = Some(x)
    /\ \A r \in 1..(i - 1) : Cell(j, r) # Some(x)

\* C15: after encode_dictionary and decode_dictionary with the same
\* interner and options, every row whose key or dictionary value is null is
\* null, every other row has a key k below the length of the child with
\* child[k] the row's value, and the child holds each distinct value of the
\* rows once, at the dense indices 0, 1, 2, ... in the order the values
\* first appear.
C15_DictionaryRoundTrip ==
    \A j \in 1..Len(arrays) :
        (fields[j].dt = "Dictionary" /\ pc \in {"decode", "done"}) =>
            /\ arrays[j].status = "Ok"
            /\ Len(arrays[j].nulls) = NumRows
            /\ Len(arrays[j].keys) = NumRows
            /\ \A i \in 1..NumRows :
                /\ arrays[j].nulls[i] = IsSome(Cell(j, i))
                /\ IsSome(Cell(j, i)) =>
                    /\ arrays[j].keys[i] < Len(arrays[j].child)
                    /\ arrays[j].child[arrays[j].keys[i] + 1] = Unwrap(Cell(j, i))
            /\ {Some(arrays[j].child[k]) : k \in 1..Len(arrays[j].child)} = DistinctValues(j)
            /\ Len(arrays[j].child) = Cardinality(DistinctValues(j))
            /\ \A k1, k2 \in 1..Len(arrays[j].child) :
                k1 < k2 => FirstRow(j, arrays[j].child[k1]) < FirstRow(j, arrays[j].child[k2])

\* two rows with different keys of one value share one child slot
C15_Witness ==
    /\ pc = "done"
    /\ Len(fields) = 1
    /\ fields[1].dt = "Dictionary"
    /\ fields[1].value_type = "Utf8"
    /\ fields[1].opts.descending
    /\ columns[1].keys = <<Some(3), Some(0)>>
    /\ arrays[1].keys = <<0, 0>>
    /\ arrays[1].child = <<<<98>>>>

\* two values in the order of their first rows, not of their keys
C15_FirstAppearance ==
    /\ pc = "done"
    /\ Len(fields) = 1
    /\ fields[1].dt = "Dictionary"
    /\ columns[1].keys = <<Some(2), Some(0)>>
    /\ arrays[1].keys = <<0, 1>>
    /\ Len(arrays[1].child) = 2

\* ---------------------------------------------------------------------
\* What a reader takes from the row slices

\* the key a dictionary reader finds in a slice: the bytes after the first
\* up to and with the first terminator
ScannedKey(row, opts) ==
    SubSeq(row, 2, Unwrap(PositionFrom(row, IF opts.descending THEN 255 ELSE 0, 2)) + 2)

\* the reader of column j took from the slice of row i the bytes the writer
\* of column j wrote for row i
TookSegment(j, i) ==
    /\ rows[i] = Segment(j, i) \o rows'[i]
    /\ fields[j].dt = "Dictionary" =>
          Len(rows[i]) - Len(rows'[i]) =
              (IF IsSome(Cell(j, i)) THEN 1 + Len(ScannedKey(rows[i], fields[j].opts)) ELSE 1)

\* C16: each column reader advances every row slice by the bytes the writer
\* of that column wrote for the row, for a dictionary column one byte for a
\* null and else one byte and the key, the key ending with the first 0x00
\* (ascending) or 0xFF (descending) after byte 0; so each later reader
\* starts at its own segment and after the last reader every slice is empty.
C16_DecoderAdvance ==
    [][Len(arrays') = Len(arrays) + 1 =>
          /\ arrays'[Len(arrays')].status = "Ok"
          /\ \A i \in 1..NumRows : TookSegment(Len(arrays'), i)
          /\ Len(arrays') = Len(fields) => \A i \in 1..NumRows : rows'[i] = << >>]_vars

\* a descending dictionary column and a second column read, the slices empty
C16_Witness ==
    /\ pc = "done"
    /\ Len(fields) = 2
    /\ fields[1].dt = "Dictionary"
    /\ fields[1].opts.descending
    /\ fields[2].dt = "Dictionary"
    /\ NumRows = 2
    /\ IsSome(Cell(1, 1))
    /\ ~IsSome(Cell(1, 2))
    /\ IsSome(Cell(2, 2))
    /\ Len(arrays) = 2
    /\ rows = <<<< >>, << >>>>

\* ---------------------------------------------------------------------
\* The offsets of the row buffer as the cursors of the column writers

\* byte p of the buffer (counted from 0) lies in the segment of column j of
\* some row
InSegmentOf(j, p) ==
    \E i \in 1..NumRows :
        /\ SegmentStart(j, i) <= p
        /\ p < SegmentStart(j, i) + SegmentLength(fields[j], columns[j], i)

\* C17: from offsets set from the row lengths, after every column writer,
\* fixed-width or dictionary, offsets[0] is 0 and the offsets are monotone;
\* the writer changes only bytes of the segments of its own column, each
\* inside its row, none of another row or of an earlier column; and once
\* all columns are written offsets[i] is the first byte of row i and
\* offsets[n] the length of the buffer.
C17_OffsetsAsCursors ==
    [][written' = written + 1 =>
          /\ offsets'[1] = 0
          /\ Len(offsets') = Len(offsets)
          /\ \A i \in 1..NumRows : offsets'[i] <= offsets'[i + 1]
          /\ Len(buffer') = Len(buffer)
          /\ \A p \in 1..Len(buffer) :
                buffer'[p] # buffer[p] => InSegmentOf(written', p - 1)
          /\ \A i \in 1..NumRows :
                /\ RowStart(fields, columns, i) <= SegmentStart(written', i)
                /\ offsets'[i + 1] = SegmentStart(written', i)
                        + SegmentLength(fields[written'], columns[written'], i)
                /\ offsets'[i + 1] <= RowStart(fields, columns, i)
                        + RowLength(fields, columns, i)
          /\ written' = Len(fields) =>
                /\ \A i \in 1..NumRows : offsets'[i] = RowStart(fields, columns, i)
                /\ offsets'[NumRows + 1] = Len(buffer')]_vars

\* two rows of a dictionary column and a fixed-width column, all written
C17_Witness ==
    /\ pc = "encode"
    /\ written = 2
    /\ Len(fields) = 2
    /\ fields[1].dt = "Dictionary"
    /\ fields[2].dt = "Boolean"
    /\ NumRows = 2
    /\ IsSome(Cell(1, 1))
    /\ ~IsSome(Cell(1, 2))
    /\ offsets[1] = 0
    /\ offsets[2] = RowStart(fields, columns, 2)
    /\ offsets[3] = Len(buffer)

\* ---------------------------------------------------------------------
\* arrow-data/src/equal/decimal.rs: the equality of two ranges of decimal
\* arrays.  An ArrayData is its data type, its offset, its value buffer and
\* its null buffer, None or one validity bit for each slot.

size_decimal128(data_type) == 16
\* the bytes of one value: the match on lhs.data_type()
size(data_type) == IF data_type = "Decimal128" THEN 16 ELSE 32

\* contains_nulls(null_bit_buffer, offset, len): a cleared bit in the range
contains_nulls(null_buffer, offset, len) ==
    /\ IsSome(null_buffer)
    /\ \E i \in 0..(len - 1) : ~Unwrap(null_buffer)[offset + i + 1]

\* bit_util::get_bit
get_bit(bits, i) == bits[i + 1]

\* utils::equal_len: lhs_values[lhs_start..lhs_start + len] ==
\* rhs_values[rhs_start..rhs_start + len]
equal_len(lhs_values, rhs_values, lhs_start, rhs_start, len) ==
    \A k \in 1..len : lhs_values[lhs_start + k] = rhs_values[rhs_start + k]

decimal_equal(lhs, rhs, lhs_start, rhs_start, len) ==
    LET lhs_values == Drop(lhs.buffer, lhs.offset * size(lhs.data_type))
        rhs_values == Drop(rhs.buffer, rhs.offset * size(lhs.data_type))
    IN  IF ~contains_nulls(lhs.null_buffer, lhs_start + lhs.offset, len)
        THEN [status |-> "Ok",
              value |-> equal_len(lhs_values, rhs_values,
                                  size(lhs.data_type) * lhs_start,
                                  size(lhs.data_type) * rhs_start,
                                  size(lhs.data_type) * len)]
        \* rhs.null_buffer().as_ref().unwrap()
        ELSE IF ~IsSome(rhs.null_buffer) THEN [status |-> "Panic"]
        ELSE [status |-> "Ok",
              value |-> \A i \in 0..(len - 1) :
                  LET lhs_pos == lhs_start + i
                      rhs_pos == rhs_start + i
                      lhs_is_null == ~get_bit(Unwrap(lhs.null_buffer), lhs_pos + lhs.offset)
                      rhs_is_null == ~get_bit(Unwrap(rhs.null_buffer), rhs_pos + rhs.offset)
                  IN  \/ lhs_is_null
                      \/ /\ lhs_is_null = rhs_is_null
                         /\ equal_len(lhs_values, rhs_values,
                                      lhs_pos * size(lhs.data_type),
                                      rhs_pos * size(lhs.data_type),
                                      size(lhs.data_type))]

\* the longest range compared
MaxLen == 2

\* the bytes a value of a decimal array takes in its value buffer
ByteWidth(data_type) == IF data_type = "Decimal128" THEN 16 ELSE 32

RECURSIVE Zeros(_)
Zeros(n) == IF n = 0 THEN << >> ELSE <<0>> \o Zeros(n - 1)

\* two values of a decimal type that differ in their last byte
SlotValues(data_type) ==
    {Zeros(ByteWidth(data_type)), Zeros(ByteWidth(data_type) - 1) \o <<1>>}

RECURSIVE Repeat(_, _)
Repeat(x, n) == IF n = 0 THEN << >> ELSE <<x>> \o Repeat(x, n - 1)

RECURSIVE TupleOf(_, _)
\* the function f on 1..n as a sequence
TupleOf(f, n) == IF n = 0 THEN << >> ELSE Append(TupleOf(f, n - 1), f[n])

RECURSIVE Flatten(_)
Flatten(ss) == IF Len(ss) = 0 THEN << >> ELSE Head(ss) \o Flatten(Tail(ss))

\* the arrays with `before` slots ahead of a range of len slots; the slots
\* ahead of the range hold the value pad and the validity padbit
DecimalArrays(data_type, offset, before, len, pad, padbit) ==
    {[data_type |-> data_type,
      offset |-> offset,
      buffer |-> Flatten(Repeat(pad, before) \o TupleOf(vals, len)),
      null_buffer |-> nb] :
        vals \in [1..len -> SlotValues(data_type)],
        nb \in {None} \cup
               {Some(Repeat(padbit, before) \o TupleOf(bits, len)) :
                    bits \in [1..len -> BOOLEAN]}}

InitDecimal ==
    /\ scalar = ScalarIdle
    /\ PipelineIdle
    /\ mapping = MappingIdle
    /\ \E data_type \in DecimalTypes, len \in 0..MaxLen,
          lhs_offset \in 0..1, rhs_offset \in 0..1,
          lhs_start \in 0..1, rhs_start \in 0..1 :
        LET one == Zeros(ByteWidth(data_type) - 1) \o <<1>>
            zero == Zeros(ByteWidth(data_type))
        IN  \E lhs \in DecimalArrays(data_type, lhs_offset, lhs_offset + lhs_start,
                                     len, one, FALSE),
               rhs \in DecimalArrays(data_type, rhs_offset, rhs_offset + rhs_start,
                                     len, zero, TRUE) :
                call = [fn |-> "decimal_equal", lhs |-> lhs, rhs |-> rhs,
                        lhs_start |-> lhs_start, rhs_start |-> rhs_start,
                        len |-> len, ret |-> None]

DecimalEqual ==
    /\ call.fn = "decimal_equal"
    /\ Return("decimal_equal",
              decimal_equal(call.lhs, call.rhs, call.lhs_start, call.rhs_start, call.len))

NextDecimal == DecimalEqual

SpecDecimal == InitDecimal /\ [][NextDecimal]_vars

\* slot i of the range of array a is null
IsNullAt(a, start, i) ==
    IsSome(a.null_buffer) /\ ~Unwrap(a.null_buffer)[a.offset + start + i + 1]

\* byte k of the value in slot i of the range of array a
ValueByte(a, start, i, k) == a.buffer[(a.offset + start + i) * ByteWidth(a.data_type) + k]

MasksAgree ==
    \A i \in 0..(call.len - 1) :
        IsNullAt(call.lhs, call.lhs_start, i) = IsNullAt(call.rhs, call.rhs_start, i)

\* C18: decimal_equal over len slots from lhs_start / rhs_start, each array's
\* offset added: when the two null masks agree on the range it returns true
\* if and only if at every slot that is not null the 16 (Decimal128) or 32
\* (Decimal256) bytes of the two values are the same; the bytes of null
\* slots have no part in the result.
C18_DecimalEqual ==
    (Returned("decimal_equal") /\ MasksAgree) =>
        /\ call.ret[1].status = "Ok"
        /\ call.ret[1].value =
              (\A i \in 0..(call.len - 1) :
                  ~IsNullAt(call.lhs, call.lhs_start, i) =>
                      \A k \in 1..ByteWidth(call.lhs.data_type) :
                          ValueByte(call.lhs, call.lhs_start, i, k)
                              = ValueByte(call.rhs, call.rhs_start, i, k))

\* a null slot whose bytes differ and a slot with the same bytes: equal
C18_Witness ==
    /\ Returned("decimal_equal")
    /\ MasksAgree
    /\ call.lhs.data_type = "Decimal256"
    /\ call.len = 2
    /\ call.lhs.offset = 1
    /\ call.rhs_start = 1
    /\ IsNullAt(call.lhs, call.lhs_start, 0)
    /\ ValueByte(call.lhs, call.lhs_start, 0, 32) # ValueByte(call.rhs, call.rhs_start, 0, 32)
    /\ ~IsNullAt(call.lhs, call.lhs_start, 1)
    /\ call.ret[1].value = TRUE

\* two slots that are not null and differ in their last byte: not equal
C18_Differ ==
    /\ Returned("decimal_equal")
    /\ MasksAgree
    /\ call.len = 1
    /\ ~IsNullAt(call.lhs, call.lhs_start, 0)
    /\ call.ret[1].value = FALSE

\* ---------------------------------------------------------------------
\* decode_dictionary failing: the rows of a dictionary of strings, read
\* with a key type too narrow for the distinct values or as a value type
\* without a child decoder

\* key types with dictionary sizes within and beyond their range
FailureSizes ==
    {<<"Int8", 2>>, <<"Int8", 129>>, <<"UInt8", 257>>, <<"Int16", 2>>}

InitFailure ==
    /\ scalar = ScalarIdle
    /\ mapping = MappingIdle
    /\ call = CallIdle
    /\ \E kd \in FailureSizes, o \in SortOptions, extra \in {0, 2},
          first_null \in BOOLEAN :
        LET fs == <<FieldOf(DictionaryKind(kd[1], "Utf8"), o)>>
            cols == <<WideColumn(kd[2], kd[2] + extra, first_null)>>
            out == RowsNew(fs, cols, kd[2] + extra)
        IN  /\ fields = fs
            /\ columns = cols
            /\ buffer = out.buffer
            /\ offsets = out.offsets
            /\ interners = <<InternerOf(fs[1], cols[1])>>
    /\ written = 0
    /\ rows = << >>
    /\ arrays = << >>
    /\ pc = "encode"

\* the caller reads the column back, naming the value type of the child
DecodeDictionaryAs ==
    /\ pc = "decode"
    /\ \E value_type \in {"Utf8", "List", "Struct"} :
          Decoded(decode_dictionary(interners[1], fields[1].key_type, value_type,
                                    fields[1].opts, rows))

NextFailure ==
    \/ EncodeDictionary
    \/ RowsIter
    \/ DecodeDictionaryAs

SpecFailure == InitFailure /\ [][NextFailure]_vars

\* the bytes the writer wrote for row i of the column
WrittenLength(i) == SegmentLength(fields[1], columns[1], i)

\* the number of distinct values in the rows 1..i
DistinctUpTo(i) ==
    Cardinality({columns[1].keys[r] : r \in 1..i} \ {None})

\* row r is the first that brings a distinct value beyond the range of the keys
OverflowRow(r) ==
    /\ DistinctUpTo(r) > KeyMax(fields[1].key_type) + 1
    /\ DistinctUpTo(r - 1) <= KeyMax(fields[1].key_type) + 1

\* C19: decode_dictionary does not undo its work when it fails: returning
\* DictionaryKeyOverflowError at row r it has advanced the slices of the
\* rows up to and with r past the column's segment, left the slices of the
\* rows after r as they were, and returns no array; returning
\* NotYetImplemented for the value type it has advanced every slice.
C19_FailureNotAtomic ==
    [][Len(arrays') = Len(arrays) + 1 =>
          /\ arrays'[1].status = "DictionaryKeyOverflowError" =>
                \E r \in 1..NumRows :
                    /\ OverflowRow(r)
                    /\ \A i \in 1..NumRows :
                          rows'[i] = (IF i <= r THEN Drop(rows[i], WrittenLength(i))
                                      ELSE rows[i])
          /\ arrays'[1].status = "NotYetImplemented" =>
                \A i \in 1..NumRows : rows'[i] = Drop(rows[i], WrittenLength(i))
          /\ arrays'[1].status # "Ok" => arrays'[1].child = << >>]_vars

\* 129 values read with Int8 keys: row 128 fails, the two rows after it are
\* as they were
C19_Witness ==
    /\ pc = "failed"
    /\ fields[1].key_type = "Int8"
    /\ NumRows = 131
    /\ columns[1].keys[1] = Some(0)
    /\ arrays[1].status = "DictionaryKeyOverflowError"
    /\ rows[129] = << >>
    /\ Len(rows[130]) = WrittenLength(130)
    /\ Len(rows[131]) > 0

\* a value type without child decoder: every slice is empty, the reader fails
C19_NotYetImplemented ==
    /\ pc = "failed"
    /\ NumRows = 4
    /\ ~IsSome(Cell(1, 1))
    /\ arrays[1].status = "NotYetImplemented"
    /\ \A i \in 1..NumRows : rows[i] = << >>

====
